---------------------------- MODULE Spec2Model ----------------------------
(***************************************************************************)
(* Behaviour composition and tick scheduling of Interactable               *)
(* (src/src/Interactable.tsx).                                             *)
(*                                                                         *)
(* The component builds, in its constructor, one Reanimated node graph per *)
(* axis (trans("x", ...), trans("y", ...)).  A frame evaluates transX and  *)
(* then transY; a node object is evaluated at most once per frame, so the  *)
(* node objects that both graphs share (handleSnapTo's nodes, line 408,    *)
(* and stopWhenNeeded, line 440) act in the first axis that reaches them   *)
(* and return their remembered value in the second.  The variable memo     *)
(* holds the shared nodes already evaluated in the running frame.          *)
(*                                                                         *)
(* Numbers: positions are integers, velocities are integers in position    *)
(* units per unit of dt.  Quantities the code multiplies by 0.1 or         *)
(* compares after such a product are kept scaled by 10.                    *)
(*                                                                         *)
(* An optional JavaScript value is a sequence of length 0 (undefined) or 1.*)
(***************************************************************************)
EXTENDS Integers, Sequences, FiniteSets, TLC

VARIABLES
    cfg,          \* props of the instance (snapPoints, locks, boundaries, observers)
    gstate,       \* `state`: "undetermined" | "active" | "end"       (line 209)
    gesture,      \* `gesture`: translation per axis                  (line 210)
    pos,          \* this._object.x / .y                              (line 241)
    vel,          \* this._object.vx / .vy                            (line 244)
    snapPoint,    \* this._snapPoint: x, y, tension, damping          (line 249)
    dragging,     \* this._dragging per axis, 0 | 1                   (line 256)
    start,        \* `start` of each trans                            (line 455)
    anchor,       \* dragAnchor per axis                              (line 215)
    last,         \* `last` of each trans; << >> is MAX_SAFE_INTEGER  (line 477)
    noMove,       \* noMovementFrames per axis                        (line 417)
    clock,        \* clockRunning(clock)
    pending,      \* "no" | "event" | "cmd": a value was set, an evaluation is due
    pc,           \* "idle" | "y": position of the running frame
    dt,           \* dt of the running frame (one diff node, line 207)
    memo,         \* shared nodes already evaluated in the running frame
    op,           \* clock operation stopWhenNeeded ran in the last step
    ev,           \* observer calls made by the last step
    nSnap,        \* runs of handleSnapTo in the running frame
    relTick,      \* the running frame began with the gesture over and flags set
    quiet,        \* the clock went Running -> Stopped and nothing re-triggered since
    prevCommit,   \* position committed by the previous settling step, per axis
    integ,        \* position integrated (before the clamp) by the last step
    stepped,      \* axis evaluated by the last step ("none" for an input)
    gestures,     \* gesture events received so far
    commands,     \* imperative commands received so far
    trigger,      \* what caused the running (or the last) frame, with its arguments
    snapIn,       \* SnapSelector alone: [pts, obj, clb, dragClb]
    snapOut,      \* SnapSelector alone: << >> or <<[sp, snap, drag]>>
    mergeIn,      \* mergeBehaviors alone: [temp, perm]
    mergeOut,     \* mergeBehaviors alone: << >> or <<merged list>>
    mergeRun,     \* mergeBehaviors step by step: [pc, tempIdx, permIdx, priority, behaviors]
    areaIn,       \* areaToBoundaryXY alone: [area, p]
    areaOut       \* areaToBoundaryXY alone: << >> or <<[boundary, applies]>>

engineVars == <<cfg, gstate, gesture, pos, vel, snapPoint, dragging, start, anchor,
                last, noMove, clock, pending, pc, dt, memo, op, ev, nSnap, relTick,
                quiet, prevCommit, integ, stepped, gestures, commands, trigger>>
snapVars == <<snapIn, snapOut>>
mergeVars == <<mergeIn, mergeOut, mergeRun>>
areaVars == <<areaIn, areaOut>>
vars == <<engineVars, snapVars, mergeVars, areaVars>>

----------------------------------------------------------------------------
(* Program constants *)

ANIMATOR_PAUSE_CONSECUTIVE_FRAMES == 10
ANIMATOR_PAUSE_ZERO_VELOCITY == 1
DefaultSnapX == 0
DefaultSnapY == 0
DefaultTension == 300
\* DEFAULT.snapPoint.damping, 0.7, in tenths
DefaultDampingTenths == 7
\* DEFAULT.dragToss, 0.1, as DragTossNum / DragTossDen
DragTossNum == 1
DragTossDen == 10

(* Bounds of the model *)

MaxPos == 1
MaxFrames == 12
MaxGestures == 2
MaxCommands == 1
MaxSnapPoints == 2
MaxLen == 3
MaxPrio == 2

Axes == {"x", "y"}
Other(a) == IF a = "x" THEN "y" ELSE "x"
Positions == 0..MaxPos
Vel == {-1, 0, 1}
DtSet == {0, 1}
Offsets == {0, 1}
Abs(n) == IF n < 0 THEN -n ELSE n
Undefined == << >>
Opt(S) == {Undefined} \cup {<<v>> : v \in S}

----------------------------------------------------------------------------
(* SnapSelector: snapTo(target, snapPoints, snapPoint, clb, dragClb)       *)

\* `o || d` for an optional number o: undefined and 0 are both falsy
OrDefault(o, d) == IF o = Undefined THEN d ELSE IF o[1] = 0 THEN d ELSE o[1]

\* tossTarget (lines 403-406), times DragTossDen: x + dragToss * vx
TossTarget(o) ==
    [x |-> DragTossDen * o.x + DragTossNum * o.vx,
     y |-> DragTossDen * o.y + DragTossNum * o.vy]

Sq(n) == n * n

\* snapDist (lines 728-732), times DragTossDen^2; t is TossTarget's value
SnapDist(t, pt) ==
    Sq(t.x - DragTossDen * OrDefault(pt.x, DefaultSnapX))
      + Sq(t.y - DragTossDen * OrDefault(pt.y, DefaultSnapY))

\* setSnapPoint (lines 734-739)
SetSnapPoint(pt) ==
    [tension |-> OrDefault(pt.tension, DefaultTension),
     damping |-> OrDefault(pt.damping, DefaultDampingTenths),
     x |-> OrDefault(pt.x, DefaultSnapX),
     y |-> OrDefault(pt.y, DefaultSnapY)]

\* lessThan(newDist, dist) of line 746
SnapCloser(newDist, dist) == newDist < dist

\* the cond nodes of snapPoints.map (lines 744-750), candidate i onwards
RECURSIVE SnapScan(_, _, _, _, _)
SnapScan(pts, i, t, dist, sp) ==
    IF i > Len(pts) THEN sp
    ELSE LET newDist == SnapDist(t, pts[i])
         IN  IF SnapCloser(newDist, dist)
             THEN SnapScan(pts, i + 1, t, newDist, SetSnapPoint(pts[i]))
             ELSE SnapScan(pts, i + 1, t, dist, sp)

\* handleSnapTo (lines 741-751): the snap point it installs
HandleSnapTo(pts, t) ==
    SnapScan(pts, 1, t, SnapDist(t, pts[1]), SetSnapPoint(pts[1]))

\* the test of lines 757-760 for candidate pt against the installed point
SnapMatches(pt, sp) ==
    /\ (pt.x = Undefined \/ pt.x[1] = sp.x)
    /\ (pt.y = Undefined \/ pt.y[1] = sp.y)

\* the candidates (1-based) the call of lines 755-768 reports, in order
RECURSIVE SnapReported(_, _, _)
SnapReported(pts, sp, i) ==
    IF i > Len(pts) THEN << >>
    ELSE (IF SnapMatches(pts[i], sp) THEN <<i>> ELSE << >>)
           \o SnapReported(pts, sp, i + 1)

\* clb's events (line 761): index is 0-based as in the code
SnapEvents(pts, sp, clb) ==
    IF clb
    THEN LET r == SnapReported(pts, sp, 1)
         IN  [k \in 1..Len(r) |-> [index |-> r[k] - 1, id |-> pts[r[k]].id]]
    ELSE << >>

\* dragClb's events (lines 762-765)
DragEndEvents(pts, sp, t, dragClb) ==
    IF dragClb
    THEN LET r == SnapReported(pts, sp, 1)
         IN  [k \in 1..Len(r) |->
                [state |-> "end", x |-> t.x, y |-> t.y,
                 targetSnapPointId |-> pts[r[k]].id]]
    ELSE << >>

----------------------------------------------------------------------------
(* PriorityMerge: mergeBehaviors(temp, perm)                               *)
(* A list entry is [priority |-> integer, behavior |-> identity]; the     *)
(* identity of a behaviour is the list it came from and its place there.  *)

\* the initial value of `priority` (lines 685-689)
MergeStart(temp, perm) ==
    IF Len(perm) > 0 THEN perm[1].priority
    ELSE IF Len(temp) > 0 THEN temp[1].priority
    ELSE -1

\* one inner while (lines 696-699, 700-703): the index it stops at
RECURSIVE MergeDrain(_, _, _)
MergeDrain(list, idx, priority) ==
    IF idx <= Len(list) /\ list[idx].priority <= priority
    THEN MergeDrain(list, idx + 1, priority)
    ELSE idx

\* the behaviours of list[from .. to - 1], as pushed by an inner while
MergePushed(list, from, to) ==
    [k \in 1..(to - from) |-> list[from + k - 1].behavior]

\* the outer while (lines 695-705)
RECURSIVE MergeLoop(_, _, _, _, _, _)
MergeLoop(temp, perm, tempIdx, permIdx, priority, behaviors) ==
    IF tempIdx <= Len(temp) \/ permIdx <= Len(perm)
    THEN LET t2 == MergeDrain(temp, tempIdx, priority)
             p2 == MergeDrain(perm, permIdx, priority)
         IN  MergeLoop(temp, perm, t2, p2, priority + 1,
                       behaviors \o MergePushed(temp, tempIdx, t2)
                                 \o MergePushed(perm, permIdx, p2))
    ELSE behaviors

\* mergeBehaviors (lines 681-708)
MergeBehaviorsPermFirst(temp, perm) ==
    MergeLoop(perm, temp, 1, 1, MergeStart(temp, perm), << >>)
MergeBehaviors(temp, perm) ==
    MergeLoop(temp, perm, 1, 1, MergeStart(temp, perm), << >>)

----------------------------------------------------------------------------
(* Configurations (props)                                                  *)

Pt(x, y, tension, damping, id) ==
    [x |-> x, y |-> y, tension |-> tension, damping |-> damping, id |-> id]

\* snapPoints of the engine's configurations
EngineSnapPoints ==
    <<Pt(<<0>>, <<0>>, Undefined, Undefined, Undefined),
      Pt(<<MaxPos>>, Undefined, <<100>>, Undefined, <<"b">>),
      Pt(Undefined, <<MaxPos>>, <<0>>, Undefined, <<"c">>)>>

NoBoundaries == Undefined
SomeBoundaries ==
    <<[left |-> <<1>>, right |-> Undefined, top |-> Undefined, bottom |-> <<0>>]>>

\* lock: "h" is horizontalOnly, "v" is verticalOnly
Config(lock, boundaries, observers) ==
    [snapPoints |-> EngineSnapPoints, lock |-> lock, boundaries |-> boundaries,
     onStop |-> observers, onSnap |-> observers, onDrag |-> observers]

\* a configuration with no snap point
EmptyConfig == [Config("none", NoBoundaries, TRUE) EXCEPT !.snapPoints = << >>]

Configs ==
    {Config("none", NoBoundaries, TRUE),
     Config("h", SomeBoundaries, TRUE),
     Config("v", SomeBoundaries, TRUE),
     Config("h", NoBoundaries, FALSE),
     EmptyConfig}

\* snapTo(...) of line 408 evaluates snapDist(snapPoints[0]) (line 742) while
\* the constructor runs: pt.x of an undefined pt throws
ConstructsAlways(c) == TRUE
Constructs(c) == Len(c.snapPoints) > 0

\* render (lines 546-547): verticalOnly leaves transX out of the view,
\* horizontalOnly leaves transY out; a node that is left out is never evaluated
Simulated(a) == IF a = "x" THEN cfg.lock # "v" ELSE cfg.lock # "h"
\* translateX / translateY of lines 546-547
Output(a) == IF Simulated(a) THEN pos[a] ELSE 0
FirstAxis == IF Simulated("x") THEN "x" ELSE "y"
\* transY, when simulated, is evaluated after transX and ends the frame
EndsFrame(a) == ~(a = "x" /\ Simulated("y"))

----------------------------------------------------------------------------
(* The per-axis graph: trans(axis, vaxis, lowerBound, upperBound)          *)

\* clamp(advance, lower, upper) of lines 469-473; a bound that is not
\* configured does not constrain
ClampLowerOnly(v, lo, hi) ==
    IF lo # Undefined /\ v < lo[1] THEN lo[1] ELSE v
Clamp(v, lo, hi) ==
    IF lo # Undefined /\ v < lo[1] THEN lo[1]
    ELSE IF hi # Undefined /\ v > hi[1] THEN hi[1]
    ELSE v

LowerBound(a) == IF a = "x" THEN cfg.boundaries[1].left ELSE cfg.boundaries[1].top
UpperBound(a) == IF a = "x" THEN cfg.boundaries[1].right ELSE cfg.boundaries[1].bottom

\* the first `advance` (lines 463-467)
Integrate(x, vx, d) ==
    IF Abs(vx) < ANIMATOR_PAUSE_ZERO_VELOCITY THEN x ELSE x + vx * d

\* `advance` (lines 463-474) of axis a
AdvanceUnclamped(a, x, vx, d) == Integrate(x, vx, d)
Advance(a, x, vx, d) ==
    IF cfg.boundaries # Undefined
    THEN Clamp(Integrate(x, vx, d), LowerBound(a), UpperBound(a))
    ELSE Integrate(x, vx, d)

\* a node object shared by transX and transY is evaluated once per frame
NeverMemoized(node, done) == FALSE
Memoized(node, done) == node \in done

\* cond(clockRunning(clock), call(...)) of lines 428-437
HandleStopEmitsAlways(onStop, running) == onStop
HandleStopEmits(onStop, running) == onStop /\ running

\* the condition of stopWhenNeeded (lines 441-444)
StopNeeded(frames) ==
    /\ frames.x >= ANIMATOR_PAUSE_CONSECUTIVE_FRAMES
    /\ frames.y >= ANIMATOR_PAUSE_CONSECUTIVE_FRAMES

\* testMovementFrames (lines 479-483): the new [last, count]
TestMovementFramesKeepLast(adv, lastA, count) ==
    IF lastA = <<adv>> THEN [last |-> lastA, count |-> count + 1]
    ELSE [last |-> lastA, count |-> 0]
TestMovementFrames(adv, lastA, count) ==
    IF lastA = <<adv>> THEN [last |-> lastA, count |-> count + 1]
    ELSE [last |-> <<adv>>, count |-> 0]

\* What a behaviour sequence (cond(dt, ...Behaviors[axis]), lines 509, 513)
\* may leave in the axis velocity.  The force laws are the library's; the
\* sequences built here are a spring or anchor on `target` and friction
\* (and bounce), which leave an object at rest on the target at rest.
BehaviorVelocities(v, x, target, d) ==
    IF d = 0 THEN {v}
    ELSE {w \in Vel : /\ (v = 0 /\ x = target) => w = 0
                      /\ Integrate(x, w, d) \in Positions}

\* stop: onStop's payload; dragStart: onDrag({state: "start"}); snap: the index
\* the snapTo command gave onSnap; error: the command threw
NoEvents == [stop |-> Undefined, dragStart |-> FALSE, snap |-> Undefined,
             error |-> FALSE]

\* a frame's cause: "mount", "clock", a gesture event ("begin", "move", "end")
\* or a command, with the command's arguments and whether the clock was stopped
Trigger(kind, x, y, index) ==
    [kind |-> kind, x |-> x, y |-> y, index |-> index, idle |-> ~clock]
ClockTrigger ==
    [kind |-> "clock", x |-> Undefined, y |-> Undefined, index |-> Undefined,
     idle |-> FALSE]

Object == [x |-> pos.x, y |-> pos.y, vx |-> vel.x, vy |-> vel.y]

\* the first branch of `step` (lines 506-510), then line 523
StepActive(a, d, v, memo0, nSnap0) ==
    LET fresh == dragging[a] = 0
        start1 == IF fresh THEN pos[a] ELSE start[a]
        anchor1 == start1 + gesture[a]
    IN  /\ v \in BehaviorVelocities(vel[a], pos[a], anchor1, d)
        /\ dragging' = [dragging EXCEPT ![a] = 1]
        /\ start' = [start EXCEPT ![a] = start1]
        /\ clock' = (clock \/ fresh)
        /\ anchor' = [anchor EXCEPT ![a] = anchor1]
        /\ vel' = [vel EXCEPT ![a] = v]
        /\ integ' = <<Integrate(pos[a], v, d)>>
        /\ pos' = [pos EXCEPT ![a] = Advance(a, pos[a], v, d)]
        /\ ev' = [NoEvents EXCEPT !.dragStart = fresh /\ cfg.onDrag]
        /\ op' = "none"
        /\ memo' = IF EndsFrame(a) THEN {} ELSE memo0
        /\ nSnap' = nSnap0
        /\ UNCHANGED <<snapPoint, last, noMove, quiet, prevCommit>>

\* the second branch of `step` (lines 511-516), then line 523
StepSettle(a, d, v, memo0, nSnap0) ==
    LET released == dragging[a] = 1
        runSnap == released /\ ~Memoized("handleSnapTo", memo0)
        snapPoint1 == IF runSnap
                      THEN HandleSnapTo(cfg.snapPoints, TossTarget(Object))
                      ELSE snapPoint
        adv == Advance(a, pos[a], v, d)
        moved == TestMovementFrames(adv, last[a], noMove[a])
        frames == [noMove EXCEPT ![a] = moved.count]
        runStop == ~Memoized("stopWhenNeeded", memo0)
        op1 == IF ~runStop THEN "none"
               ELSE IF StopNeeded(frames) THEN "stop" ELSE "start"
    IN  /\ v \in BehaviorVelocities(vel[a], pos[a], snapPoint1[a], d)
        /\ snapPoint' = snapPoint1
        /\ nSnap' = IF runSnap THEN nSnap0 + 1 ELSE nSnap0
        /\ dragging' = [dragging EXCEPT ![a] = 0]
        /\ vel' = [vel EXCEPT ![a] = v]
        /\ last' = [last EXCEPT ![a] = moved.last]
        /\ noMove' = frames
        /\ op' = op1
        /\ clock' = IF op1 = "stop" THEN FALSE ELSE IF op1 = "start" THEN TRUE ELSE clock
        /\ ev' = [NoEvents EXCEPT !.stop =
                    IF op1 = "stop" /\ HandleStopEmits(cfg.onStop, clock)
                    THEN <<[x |-> pos.x, y |-> pos.y]>> ELSE Undefined]
        /\ quiet' = IF op1 = "stop" /\ clock THEN TRUE ELSE quiet
        /\ memo' = IF EndsFrame(a) THEN {}
                   ELSE memo0 \cup (IF released THEN {"handleSnapTo"} ELSE {})
                              \cup {"stopWhenNeeded"}
        /\ integ' = <<Integrate(pos[a], v, d)>>
        /\ prevCommit' = [prevCommit EXCEPT ![a] = <<adv>>]
        /\ pos' = [pos EXCEPT ![a] = adv]
        /\ UNCHANGED <<start, anchor>>

\* one evaluation of trans(a) in a frame: block([step, set(x, advance), ...])
Step(a) ==
    LET begin == pc = "idle"
    IN  /\ Simulated(a)
        /\ \/ /\ begin
              /\ a = FirstAxis
              /\ clock \/ pending # "no"
              /\ \A b \in Axes : noMove[b] < MaxFrames
           \/ ~begin /\ pc = a
        /\ \E d \in DtSet, v \in Vel :
              /\ begin \/ d = dt
              /\ dt' = IF EndsFrame(a) THEN 0 ELSE d
              /\ IF gstate = "active"
                 THEN StepActive(a, d, v, IF begin THEN {} ELSE memo,
                                 IF begin THEN 0 ELSE nSnap)
                 ELSE StepSettle(a, d, v, IF begin THEN {} ELSE memo,
                                 IF begin THEN 0 ELSE nSnap)
        /\ relTick' = IF begin
                      THEN /\ gstate = "end"
                           /\ \A b \in Axes : Simulated(b) => dragging[b] = 1
                      ELSE relTick
        /\ pc' = IF EndsFrame(a) THEN "idle" ELSE "y"
        /\ pending' = "no"
        /\ stepped' = a
        /\ trigger' = IF begin /\ pending = "no" THEN ClockTrigger ELSE trigger
        /\ UNCHANGED <<cfg, gstate, gesture, gestures, commands, snapVars, mergeVars,
                       areaVars>>

StepX == Step("x")
StepY == Step("y")

----------------------------------------------------------------------------
(* Inputs: the gesture handler's events and the imperative commands        *)

InputFrame ==
    /\ pc = "idle"
    /\ pending # "event"
    /\ stepped' = "none"
    /\ op' = "none"
    /\ nSnap' = 0
    /\ relTick' = FALSE
    /\ integ' = Undefined
    /\ UNCHANGED <<cfg, pc, dt, memo, clock, last, noMove, start, anchor,
                   prevCommit, snapVars, mergeVars, areaVars>>

\* _onGestureEvent (lines 231-239): an event of an active gesture
GestureActive ==
    /\ InputFrame
    /\ gestures < MaxGestures
    /\ gestures' = gestures + 1
    /\ UNCHANGED commands
    /\ \E ox \in Offsets, oy \in Offsets :
          /\ gstate # "active" \/ gesture # [x |-> ox, y |-> oy]
          /\ gesture' = [x |-> ox, y |-> oy]
    /\ gstate' = "active"
    /\ pending' = "event"
    /\ quiet' = FALSE
    /\ ev' = NoEvents
    /\ trigger' = Trigger(IF gstate = "active" THEN "move" ELSE "begin",
                          Undefined, Undefined, Undefined)
    /\ UNCHANGED <<pos, vel, snapPoint, dragging>>

\* _onGestureEvent: the gesture ends
GestureEnd ==
    /\ InputFrame
    /\ gestures < MaxGestures
    /\ gestures' = gestures + 1
    /\ UNCHANGED commands
    /\ gstate = "active"
    /\ gstate' = "end"
    /\ pending' = "event"
    /\ ev' = NoEvents
    /\ trigger' = Trigger("end", Undefined, Undefined, Undefined)
    /\ UNCHANGED <<gesture, pos, vel, snapPoint, dragging, quiet>>

\* setVelocity (lines 560-569)
SetVelocity ==
    /\ InputFrame
    /\ commands < MaxCommands
    /\ commands' = commands + 1
    /\ UNCHANGED gestures
    /\ \E x \in Opt(Vel), y \in Opt(Vel) :
          /\ x # Undefined \/ y # Undefined
          /\ dragging' = [x |-> IF x # Undefined THEN 1 ELSE dragging.x,
                          y |-> IF y # Undefined THEN 1 ELSE dragging.y]
          /\ vel' = [x |-> IF x # Undefined THEN x[1] ELSE vel.x,
                     y |-> IF y # Undefined THEN y[1] ELSE vel.y]
          /\ trigger' = Trigger("setVelocity", x, y, Undefined)
    /\ ev' = NoEvents
    /\ pending' = "cmd"
    /\ quiet' = FALSE
    /\ UNCHANGED <<gstate, gesture, pos, snapPoint>>

\* setPosition (lines 571-580)
SetPosition ==
    /\ InputFrame
    /\ commands < MaxCommands
    /\ commands' = commands + 1
    /\ UNCHANGED gestures
    /\ \E x \in Opt(Positions), y \in Opt(Positions) :
          /\ x # Undefined \/ y # Undefined
          /\ dragging' = [dragging EXCEPT !.x = 1]
          /\ pos' = [x |-> IF x # Undefined THEN x[1] ELSE pos.x,
                     y |-> IF y # Undefined THEN y[1] ELSE pos.y]
          /\ trigger' = Trigger("setPosition", x, y, Undefined)
    /\ ev' = NoEvents
    /\ pending' = "cmd"
    /\ quiet' = FALSE
    /\ UNCHANGED <<gstate, gesture, vel, snapPoint>>

\* the indices a caller may pass: those of snapPoints (1-based here) and
\* one on either side
SnapToIndices == 0..(Len(cfg.snapPoints) + 1)

\* this.props.snapPoints[index] (line 583): undefined outside the array
SnapPointAt(pts, i) == IF i \in 1..Len(pts) THEN <<pts[i]>> ELSE Undefined

\* pt.tension (line 584) of an undefined pt throws, before any setValue
SnapToThrows(pt) == pt = Undefined

\* lines 584-587: the snap point the call leaves
SnapToInstallsDefaults(sp, pt) ==
    IF pt = Undefined
    THEN SetSnapPoint(Pt(Undefined, Undefined, Undefined, Undefined, Undefined))
    ELSE SetSnapPoint(pt[1])
SnapToInstalls(sp, pt) == IF SnapToThrows(pt) THEN sp ELSE SetSnapPoint(pt[1])

\* line 588: the call of onSnap, with the code's 0-based index
SnapToEvent(onSnap, i) == IF onSnap THEN <<i - 1>> ELSE Undefined

\* snapTo({index}) (lines 582-589)
SnapToCommand ==
    /\ InputFrame
    /\ commands < MaxCommands
    /\ commands' = commands + 1
    /\ UNCHANGED gestures
    /\ \E i \in SnapToIndices :
          LET pt == SnapPointAt(cfg.snapPoints, i)
          IN  /\ snapPoint' = SnapToInstalls(snapPoint, pt)
              /\ trigger' = Trigger("snapTo", Undefined, Undefined, <<i>>)
              /\ IF SnapToThrows(pt)
                 THEN /\ ev' = [NoEvents EXCEPT !.error = TRUE]
                      /\ UNCHANGED <<pending, quiet>>
                 ELSE /\ ev' = [NoEvents EXCEPT !.snap = SnapToEvent(cfg.onSnap, i)]
                      /\ pending' = "cmd"
                      /\ quiet' = FALSE
    /\ UNCHANGED <<gstate, gesture, pos, vel, dragging>>

----------------------------------------------------------------------------
(* The engine's specification                                              *)

IdleSnap == [pts |-> << >>, obj |-> [x |-> 0, y |-> 0, vx |-> 0, vy |-> 0],
             clb |-> FALSE, dragClb |-> FALSE]
IdleMerge == [temp |-> << >>, perm |-> << >>]
IdleRun == [pc |-> "idle", tempIdx |-> 1, permIdx |-> 1, priority |-> -1,
            behaviors |-> << >>]
IdleArea == [area |-> Undefined, p |-> [x |-> 0, y |-> 0]]

\* the initial noMovementFrames (lines 417-424)
NoMovementFramesZero(lock) == [x |-> 0, y |-> 0]
NoMovementFrames(lock) ==
    [x |-> IF lock = "v" THEN ANIMATOR_PAUSE_CONSECUTIVE_FRAMES + 1 ELSE 0,
     y |-> IF lock = "h" THEN ANIMATOR_PAUSE_CONSECUTIVE_FRAMES + 1 ELSE 0]

\* the state the constructor leaves (lines 206-259, 417-424)
EngineInit(c) ==
    /\ cfg = c
    /\ gstate = "undetermined"
    /\ gesture = [x |-> 0, y |-> 0]
    /\ pos = [x |-> 0, y |-> 0]
    /\ vel = [x |-> 0, y |-> 0]
    /\ snapPoint = [x |-> 0, y |-> 0, tension |-> DefaultTension,
                    damping |-> DefaultDampingTenths]
    /\ dragging = [x |-> 0, y |-> 0]
    /\ start = [x |-> 0, y |-> 0]
    /\ anchor = [x |-> 0, y |-> 0]
    /\ last = [x |-> Undefined, y |-> Undefined]
    /\ noMove = NoMovementFrames(c.lock)
    /\ clock = FALSE
    /\ pending = "event"
    /\ pc = IF Constructs(c) THEN "idle" ELSE "failed"
    /\ dt = 0
    /\ memo = {}
    /\ op = "none"
    /\ ev = NoEvents
    /\ nSnap = 0
    /\ relTick = FALSE
    /\ quiet = FALSE
    /\ prevCommit = [x |-> Undefined, y |-> Undefined]
    /\ integ = Undefined
    /\ stepped = "none"
    /\ gestures = 0
    /\ commands = 0
    /\ trigger = [kind |-> "mount", x |-> Undefined, y |-> Undefined,
                  index |-> Undefined, idle |-> TRUE]

Init ==
    /\ \E c \in Configs : EngineInit(c)
    /\ snapIn = IdleSnap
    /\ snapOut = Undefined
    /\ mergeIn = IdleMerge
    /\ mergeOut = Undefined
    /\ mergeRun = IdleRun
    /\ areaIn = IdleArea
    /\ areaOut = Undefined

Next ==
    \/ StepX
    \/ StepY
    \/ GestureActive
    \/ GestureEnd
    \/ SetVelocity
    \/ SetPosition
    \/ SnapToCommand

Spec == Init /\ [][Next]_vars

----------------------------------------------------------------------------
(* SnapSelector on its own: inputs drawn from bounded sets                 *)

SnapPool ==
    {Pt(<<0>>, <<0>>, Undefined, Undefined, Undefined),
     Pt(<<0>>, <<0>>, Undefined, Undefined, <<"b">>),
     Pt(<<10>>, Undefined, <<100>>, <<5>>, <<"c">>),
     Pt(Undefined, <<10>>, Undefined, Undefined, Undefined),
     Pt(<<10>>, <<10>>, <<200>>, Undefined, <<"e">>),
     Pt(<<5>>, <<5>>, <<0>>, <<0>>, <<"f">>)}
SnapLists == UNION {[1..n -> SnapPool] : n \in 1..MaxSnapPoints}
SnapCoords == {0, 5, 10}
SnapSpeeds == {-10, 0, 10}
SnapObjects == [x : SnapCoords, y : SnapCoords, vx : SnapSpeeds, vy : SnapSpeeds]

InitSnap ==
    /\ EngineInit(Config("none", NoBoundaries, TRUE))
    /\ snapIn \in [pts : SnapLists, obj : SnapObjects,
                   clb : BOOLEAN, dragClb : BOOLEAN]
    /\ snapOut = Undefined
    /\ mergeIn = IdleMerge
    /\ mergeOut = Undefined
    /\ mergeRun = IdleRun
    /\ areaIn = IdleArea
    /\ areaOut = Undefined

\* handleSnapTo evaluated once on the inputs (lines 741-770)
SelectSnap ==
    /\ snapOut = Undefined
    /\ LET t == TossTarget(snapIn.obj)
           sp == HandleSnapTo(snapIn.pts, t)
       IN  snapOut' =
             <<[sp |-> sp,
                snap |-> IF snapIn.clb \/ snapIn.dragClb
                         THEN SnapEvents(snapIn.pts, sp, snapIn.clb) ELSE << >>,
                drag |-> IF snapIn.clb \/ snapIn.dragClb
                         THEN DragEndEvents(snapIn.pts, sp, t, snapIn.dragClb)
                         ELSE << >>]>>
    /\ UNCHANGED <<engineVars, snapIn, mergeVars, areaVars>>

NextSnap == SelectSnap

SpecSnap == InitSnap /\ [][NextSnap]_vars

----------------------------------------------------------------------------
(* mergeBehaviors on its own: inputs drawn from bounded sets               *)

Priorities == 0..MaxPrio
IsSortedByPriority(s) == \A i \in 1..(Len(s) - 1) : s[i] <= s[i + 1]
SortedPriorityLists ==
    {s \in UNION {[1..n -> Priorities] : n \in 0..MaxLen} : IsSortedByPriority(s)}
Prioritized(s, src) ==
    [i \in 1..Len(s) |-> [priority |-> s[i], behavior |-> [src |-> src, n |-> i]]]

InitMerge ==
    /\ EngineInit(Config("none", NoBoundaries, TRUE))
    /\ snapIn = IdleSnap
    /\ snapOut = Undefined
    /\ \E t \in SortedPriorityLists, p \in SortedPriorityLists :
          mergeIn = [temp |-> Prioritized(t, "temp"), perm |-> Prioritized(p, "perm")]
    /\ mergeOut = Undefined
    /\ mergeRun = IdleRun
    /\ areaIn = IdleArea
    /\ areaOut = Undefined

Merge ==
    /\ mergeOut = Undefined
    /\ mergeOut' = <<MergeBehaviors(mergeIn.temp, mergeIn.perm)>>
    /\ UNCHANGED <<engineVars, snapVars, mergeIn, mergeRun, areaVars>>

NextMerge == Merge

SpecMerge == InitMerge /\ [][NextMerge]_vars

----------------------------------------------------------------------------
(* mergeBehaviors one loop test at a time: the locals of lines 685-693 are *)
(* the fields of mergeRun, and pc is the loop test the call stands at      *)

\* the condition of an inner while (lines 696, 700)
MergeHolds(list, idx, priority) ==
    idx <= Len(list) /\ list[idx].priority <= priority

\* priority++ (line 704)
MergeSamePriority(priority) == priority
MergeNextPriority(priority) == priority + 1

\* the call: the locals as lines 685-693 set them
InitRun ==
    /\ EngineInit(Config("none", NoBoundaries, TRUE))
    /\ snapIn = IdleSnap
    /\ snapOut = Undefined
    /\ \E t \in SortedPriorityLists, p \in SortedPriorityLists :
          mergeIn = [temp |-> Prioritized(t, "temp"), perm |-> Prioritized(p, "perm")]
    /\ mergeOut = Undefined
    /\ mergeRun = [pc |-> "outer", tempIdx |-> 1, permIdx |-> 1,
                   priority |-> MergeStart(mergeIn.temp, mergeIn.perm),
                   behaviors |-> << >>]
    /\ areaIn = IdleArea
    /\ areaOut = Undefined

\* the test of the outer while holds (line 695)
RunEnter ==
    /\ mergeRun.pc = "outer"
    /\ mergeRun.tempIdx <= Len(mergeIn.temp) \/ mergeRun.permIdx <= Len(mergeIn.perm)
    /\ mergeRun' = [mergeRun EXCEPT !.pc = "temp"]
    /\ UNCHANGED <<engineVars, snapVars, mergeIn, mergeOut, areaVars>>

\* the test of the outer while fails: return behaviors (lines 695, 707)
RunReturn ==
    /\ mergeRun.pc = "outer"
    /\ ~(mergeRun.tempIdx <= Len(mergeIn.temp) \/ mergeRun.permIdx <= Len(mergeIn.perm))
    /\ mergeRun' = [mergeRun EXCEPT !.pc = "done"]
    /\ mergeOut' = <<mergeRun.behaviors>>
    /\ UNCHANGED <<engineVars, snapVars, mergeIn, areaVars>>

\* one turn of the first inner while (lines 696-699)
RunPushTemp ==
    /\ mergeRun.pc = "temp"
    /\ MergeHolds(mergeIn.temp, mergeRun.tempIdx, mergeRun.priority)
    /\ mergeRun' = [mergeRun EXCEPT
          !.behaviors = Append(@, mergeIn.temp[mergeRun.tempIdx].behavior),
          !.tempIdx = @ + 1]
    /\ UNCHANGED <<engineVars, snapVars, mergeIn, mergeOut, areaVars>>

\* the first inner while ends (line 696)
RunLeaveTemp ==
    /\ mergeRun.pc = "temp"
    /\ ~MergeHolds(mergeIn.temp, mergeRun.tempIdx, mergeRun.priority)
    /\ mergeRun' = [mergeRun EXCEPT !.pc = "perm"]
    /\ UNCHANGED <<engineVars, snapVars, mergeIn, mergeOut, areaVars>>

\* one turn of the second inner while (lines 700-703)
RunPushPerm ==
    /\ mergeRun.pc = "perm"
    /\ MergeHolds(mergeIn.perm, mergeRun.permIdx, mergeRun.priority)
    /\ mergeRun' = [mergeRun EXCEPT
          !.behaviors = Append(@, mergeIn.perm[mergeRun.permIdx].behavior),
          !.permIdx = @ + 1]
    /\ UNCHANGED <<engineVars, snapVars, mergeIn, mergeOut, areaVars>>

\* the second inner while ends, then priority++ (lines 700, 704)
RunLeavePerm ==
    /\ mergeRun.pc = "perm"
    /\ ~MergeHolds(mergeIn.perm, mergeRun.permIdx, mergeRun.priority)
    /\ mergeRun' = [mergeRun EXCEPT !.pc = "outer",
                                    !.priority = MergeNextPriority(@)]
    /\ UNCHANGED <<engineVars, snapVars, mergeIn, mergeOut, areaVars>>

NextRun ==
    \/ RunEnter
    \/ RunReturn
    \/ RunPushTemp
    \/ RunLeaveTemp
    \/ RunPushPerm
    \/ RunLeavePerm

\* the call runs on one thread and nothing suspends it: a turn that can be
\* taken is taken
SpecRun == InitRun /\ [][NextRun]_vars /\ WF_vars(NextRun)

----------------------------------------------------------------------------
(* addBehavior(behavior, behaviors): the lists the constructor builds      *)

\* the while loop of lines 671-677: the index the entry is spliced at
RECURSIVE AddBehaviorIndex(_, _, _)
AddBehaviorIndex(behavior, behaviors, idx) ==
    IF idx <= Len(behaviors) /\ behaviors[idx].priority < behavior.priority
    THEN AddBehaviorIndex(behavior, behaviors, idx + 1)
    ELSE idx

\* addBehavior (lines 667-679): behaviors.splice(idx, 0, behavior)
AddBehaviorAppend(behavior, behaviors) == Append(behaviors, behavior)
AddBehavior(behavior, behaviors) ==
    LET idx == AddBehaviorIndex(behavior, behaviors, 1)
    IN  SubSeq(behaviors, 1, idx - 1) \o <<behavior>>
          \o SubSeq(behaviors, idx, Len(behaviors))

InitAdd ==
    /\ EngineInit(Config("none", NoBoundaries, TRUE))
    /\ snapIn = IdleSnap
    /\ snapOut = Undefined
    /\ mergeIn = IdleMerge
    /\ mergeOut = Undefined
    /\ mergeRun = IdleRun
    /\ areaIn = IdleArea
    /\ areaOut = Undefined

\* an addSpring / addFriction / addGravity / addBehavior call on the drag or
\* snap list (lines 260-305, 377-392); the behaviour is named by its list
\* and its turn
AddToTemp ==
    /\ mergeOut = Undefined
    /\ Len(mergeIn.temp) < MaxLen
    /\ \E p \in Priorities :
          mergeIn' = [mergeIn EXCEPT !.temp =
              AddBehavior([priority |-> p,
                           behavior |-> [src |-> "temp", n |-> Len(mergeIn.temp) + 1]],
                          mergeIn.temp)]
    /\ UNCHANGED <<engineVars, snapVars, mergeOut, mergeRun, areaVars>>

\* a call on the perm list (lines 307-375)
AddToPerm ==
    /\ mergeOut = Undefined
    /\ Len(mergeIn.perm) < MaxLen
    /\ \E p \in Priorities :
          mergeIn' = [mergeIn EXCEPT !.perm =
              AddBehavior([priority |-> p,
                           behavior |-> [src |-> "perm", n |-> Len(mergeIn.perm) + 1]],
                          mergeIn.perm)]
    /\ UNCHANGED <<engineVars, snapVars, mergeOut, mergeRun, areaVars>>

NextAdd == AddToTemp \/ AddToPerm \/ Merge

SpecAdd == InitAdd /\ [][NextAdd]_vars

----------------------------------------------------------------------------
(* areaToBoundaryXY(area) and the gate it feeds                            *)
(* An area is << >> or <<[left, right, top, bottom]>>, each side optional; *)
(* a boundary is << >> or <<[min, max]>>, min and max each << >> or        *)
(* <<[x, y]>> with x and y optional.                                       *)

EmptyCorner == [x |-> Undefined, y |-> Undefined]
EmptyBoundary == [min |-> Undefined, max |-> Undefined]

\* area.left !== undefined (lines 791, 797, 803, 809)
BoundTruthy(v) == v # Undefined /\ v[1] # 0
BoundPresent(v) == v # Undefined

\* boundary = boundary || {}; boundary.min = boundary.min || {};
\* boundary.min.x = v (lines 792-794, and alike for the other sides)
SetBound(boundary, side, axis, v) ==
    LET b == IF boundary = Undefined THEN EmptyBoundary ELSE boundary[1]
        c == IF b[side] = Undefined THEN EmptyCorner ELSE b[side][1]
    IN  <<[b EXCEPT ![side] = <<[c EXCEPT ![axis] = v]>>]>>

\* areaToBoundaryXY (lines 784-816)
AreaToBoundaryXY(area) ==
    IF area = Undefined THEN Undefined
    ELSE LET a == area[1]
             b1 == IF BoundPresent(a.left)
                   THEN SetBound(Undefined, "min", "x", a.left) ELSE Undefined
             b2 == IF BoundPresent(a.right)
                   THEN SetBound(b1, "max", "x", a.right) ELSE b1
             b3 == IF BoundPresent(a.top)
                   THEN SetBound(b2, "min", "y", a.top) ELSE b2
             b4 == IF BoundPresent(a.bottom)
                   THEN SetBound(b3, "max", "y", a.bottom) ELSE b3
         IN  b4

\* the bound a boundary holds for a side and an axis, << >> when it has none
BoundOf(boundary, side, axis) ==
    IF boundary = Undefined THEN Undefined
    ELSE IF boundary[1][side] = Undefined THEN Undefined
    ELSE boundary[1][side][1][axis]

\* influenceXY(behavior, {x, y}, boundary) of lines 601-608, 626-634: the
\* behaviour acts when the point is within every bound the boundary holds
\* (the helper is the library's; points on a bound are left out of the inputs)
InfluenceXY(boundary, p) ==
    \A axis \in {"x", "y"} :
        /\ BoundOf(boundary, "min", axis) # Undefined
              => p[axis] > BoundOf(boundary, "min", axis)[1]
        /\ BoundOf(boundary, "max", axis) # Undefined
              => p[axis] < BoundOf(boundary, "max", axis)[1]

AreaCoords == {0, 10}
Areas ==
    {Undefined} \cup
    {<<a>> : a \in [left : Opt(AreaCoords), right : Opt(AreaCoords),
                    top : Opt(AreaCoords), bottom : Opt(AreaCoords)]}
AreaObjectCoords == {-5, 5, 20}

InitArea ==
    /\ EngineInit(Config("none", NoBoundaries, TRUE))
    /\ snapIn = IdleSnap
    /\ snapOut = Undefined
    /\ mergeIn = IdleMerge
    /\ mergeOut = Undefined
    /\ mergeRun = IdleRun
    /\ areaIn \in [area : Areas, p : [x : AreaObjectCoords, y : AreaObjectCoords]]
    /\ areaOut = Undefined

\* the boundary of the area, and whether a behaviour under it acts at p
ConvertArea ==
    /\ areaOut = Undefined
    /\ LET b == AreaToBoundaryXY(areaIn.area)
       IN  areaOut' = <<[boundary |-> b, applies |-> InfluenceXY(b, areaIn.p)]>>
    /\ UNCHANGED <<engineVars, snapVars, mergeVars, areaIn>>

NextArea == ConvertArea

SpecArea == InitArea /\ [][NextArea]_vars

----------------------------------------------------------------------------
(* Properties                                                              *)

\* C1: the clock is stopped only in a step where both quiescence counters
\* are >= 10, and never while the dragging flag of an axis the engine
\* simulates is set.
C1_ClockStopPrecondition ==
    op = "stop" =>
        /\ noMove.x >= ANIMATOR_PAUSE_CONSECUTIVE_FRAMES
        /\ noMove.y >= ANIMATOR_PAUSE_CONSECUTIVE_FRAMES
        /\ \A a \in Axes : Simulated(a) => dragging[a] = 0

\* C2: once the clock has gone from running to stopped, and until a gesture
\* becomes active or setVelocity, setPosition or snapTo is called, no step
\* starts the clock and no step changes the position.
C2_StoppedStaysStopped ==
    [][(quiet /\ quiet') => (~clock' /\ pos' = pos)]_vars

\* C3: at the end of a frame that began with the gesture over and the
\* dragging flag of every simulated axis set, handleSnapTo has run exactly
\* once and the dragging flag of every simulated axis is clear, whether one
\* axis or both are simulated.
C3_SnapOncePerRelease ==
    (pc = "idle" /\ relTick) =>
        /\ nSnap = 1
        /\ \A a \in Axes : Simulated(a) => dragging[a] = 0

C3_Witness ==
    /\ pc = "idle"
    /\ relTick
    /\ cfg.lock = "none"
    /\ nSnap = 1
    /\ dragging = [x |-> 0, y |-> 0]

\* a candidate's field with the default put in for a missing field
FieldOr(o, d) == IF o = Undefined THEN d ELSE o[1]

\* squared distance (times DragTossDen^2) from the toss target to candidate pt
CandidateDistance(t, pt) ==
    Sq(DragTossDen * FieldOr(pt.x, DefaultSnapX) - t.x)
      + Sq(DragTossDen * FieldOr(pt.y, DefaultSnapY) - t.y)

\* the lowest index among the candidates nearest to the toss target
NearestIndex(pts, t) ==
    CHOOSE i \in 1..Len(pts) :
        /\ \A j \in 1..Len(pts) : CandidateDistance(t, pts[i]) <= CandidateDistance(t, pts[j])
        /\ \A j \in 1..(i - 1) : CandidateDistance(t, pts[j]) > CandidateDistance(t, pts[i])

\* C4: after SnapSelector has run on a non-empty candidate list, the active
\* snap point (x, y, tension, damping) is that of the lowest-index candidate
\* at minimal squared distance from the toss target, with the defaults put
\* in for the fields the candidate does not have.
C4_SnapSelection ==
    snapOut # Undefined =>
        LET pt == snapIn.pts[NearestIndex(snapIn.pts, TossTarget(snapIn.obj))]
        IN  snapOut[1].sp = [x |-> FieldOr(pt.x, DefaultSnapX),
                             y |-> FieldOr(pt.y, DefaultSnapY),
                             tension |-> FieldOr(pt.tension, DefaultTension),
                             damping |-> FieldOr(pt.damping, DefaultDampingTenths)]

\* C5: with both observers registered, a snap resolution notifies the snap
\* observer once and the drag-end observer once, with the index and id of
\* the selected candidate only.
C5_ObserversNotifiedOnce ==
    (snapOut # Undefined /\ snapIn.clb /\ snapIn.dragClb) =>
        LET i == NearestIndex(snapIn.pts, TossTarget(snapIn.obj))
        IN  /\ Len(snapOut[1].snap) = 1
            /\ snapOut[1].snap[1] = [index |-> i - 1, id |-> snapIn.pts[i].id]
            /\ Len(snapOut[1].drag) = 1
            /\ snapOut[1].drag[1].targetSnapPointId = snapIn.pts[i].id

\* the priority of a merged behaviour, read from the list it came from
PriorityOf(b) ==
    IF b.src = "temp" THEN mergeIn.temp[b.n].priority ELSE mergeIn.perm[b.n].priority

\* C6: for priority-sorted temp and perm, the merged list is sorted by
\* priority and no perm entry precedes a temp entry of the same priority.
C6_MergeOrdering ==
    mergeOut # Undefined =>
        LET out == mergeOut[1]
        IN  /\ \A i \in 1..(Len(out) - 1) : PriorityOf(out[i]) <= PriorityOf(out[i + 1])
            /\ \A i, j \in 1..Len(out) :
                  (i < j /\ PriorityOf(out[i]) = PriorityOf(out[j]))
                      => ~(out[i].src = "perm" /\ out[j].src = "temp")

\* perm starts at a higher priority than temp, and both hold an entry of
\* one same priority
C6_Witness ==
    /\ mergeOut # Undefined
    /\ Len(mergeIn.temp) > 0
    /\ Len(mergeIn.perm) > 0
    /\ mergeIn.perm[1].priority > mergeIn.temp[1].priority
    /\ \E i \in 1..Len(mergeIn.temp), j \in 1..Len(mergeIn.perm) :
          mergeIn.temp[i].priority = mergeIn.perm[j].priority
    /\ Len(mergeOut[1]) = Len(mergeIn.temp) + Len(mergeIn.perm)

\* C7: a settling step of an axis adds 1 to the axis counter when the
\* position it commits equals the one the previous settling step of that
\* axis committed, and sets the counter to 0 when it differs.
C7_QuiescenceCounter ==
    [][(stepped' \in Axes /\ gstate # "active") =>
          LET a == stepped'
          IN  IF prevCommit[a] = <<pos'[a]>>
              THEN noMove'[a] = noMove[a] + 1
              ELSE noMove'[a] = 0]_vars

\* a settling step after a drag and a settling step that counts up
C7_Witness ==
    /\ stepped = "x"
    /\ gstate = "end"
    /\ noMove.x = 2
    /\ prevCommit.x = <<pos.x>>

InBounds(a, v) ==
    /\ (LowerBound(a) # Undefined => v >= LowerBound(a)[1])
    /\ (UpperBound(a) # Undefined => v <= UpperBound(a)[1])

\* C8: with boundaries configured, the position an axis step commits lies
\* within the configured bounds of the axis, and is the integrated position
\* when that is already within them.
C8_BoundaryClamp ==
    (cfg.boundaries # Undefined /\ stepped \in Axes) =>
        /\ InBounds(stepped, pos[stepped])
        /\ (InBounds(stepped, integ[1]) => pos[stepped] = integ[1])

\* a dragging step whose integrated position was outside and got clamped
C8_Witness ==
    /\ cfg.boundaries # Undefined
    /\ stepped \in Axes
    /\ gstate = "active"
    /\ ~InBounds(stepped, integ[1])
    /\ InBounds(stepped, pos[stepped])

\* C9: with a stop observer registered, a step emits a Stop event exactly
\* when it takes the clock from running to stopped.
C9_StopEventOncePerStop ==
    [][cfg.onStop => ((ev'.stop # Undefined) <=> (clock /\ ~clock'))]_vars

\* a Stop event for a stop that follows a drag
C9_Witness ==
    /\ ev.stop # Undefined
    /\ ~clock
    /\ gstate = "end"

\* the input that arrived in the step is a snapTo call with index i (1-based)
SnapToCalled(i) ==
    /\ commands' = commands + 1
    /\ trigger'.kind = "snapTo"
    /\ trigger'.index = <<i>>

\* C11: snapTo with an index of snapPoints leaves the active snap point equal
\* to that candidate's x, y, tension and damping, with the defaults put in for
\* the fields it does not have, delivers exactly one snap event with that index
\* when a snap observer is registered, does not run handleSnapTo, and changes
\* neither position, velocity, dragging flags nor counters.
C11_SnapToInstalls ==
    [][\A i \in 1..Len(cfg.snapPoints) :
          SnapToCalled(i) =>
              LET pt == cfg.snapPoints[i]
              IN  /\ snapPoint' = [x |-> FieldOr(pt.x, DefaultSnapX),
                                   y |-> FieldOr(pt.y, DefaultSnapY),
                                   tension |-> FieldOr(pt.tension, DefaultTension),
                                   damping |-> FieldOr(pt.damping, DefaultDampingTenths)]
                  /\ (cfg.onSnap => ev'.snap = <<i - 1>>)
                  /\ nSnap' = 0
                  /\ ~ev'.error
                  /\ UNCHANGED <<pos, vel, dragging, noMove>>]_vars

\* C13: snapTo with an index outside snapPoints surfaces an error and changes
\* nothing: active snap point, object, flags, counters and clock are as
\* before, no evaluation is scheduled and no snap event is emitted.
C13_SnapToOutOfRange ==
    [][\A i \in SnapToIndices \ (1..Len(cfg.snapPoints)) :
          SnapToCalled(i) =>
              /\ ev'.error
              /\ ev'.snap = Undefined
              /\ UNCHANGED <<snapPoint, pos, vel, dragging, noMove, last, clock,
                             pending, gstate, gesture>>]_vars

\* an out-of-range call made while a snap point other than the default one
\* is active
C13_Witness ==
    /\ trigger.kind = "snapTo"
    /\ trigger.index = <<Len(cfg.snapPoints) + 1>>
    /\ stepped = "none"
    /\ ev.error
    /\ snapPoint.x = MaxPos

\* C12: a snapTo call made while the clock is stopped re-triggers the
\* simulation.  Stated on the frame the call brings about, after which
\* nothing is evaluated unless the clock runs: when that frame has moved the
\* object (it reset the counter of an axis), the clock runs at its end.
C12_SnapToRetriggers ==
    ( /\ pc = "idle"
      /\ stepped \in Axes
      /\ gstate # "active"
      /\ trigger.kind = "snapTo"
      /\ trigger.idle
      /\ \E a \in Axes : Simulated(a) /\ noMove[a] = 0 )
        => clock

\* the input that arrived in the step is a call of command kind with
\* arguments {x, y} (<< >> for an argument that is not given)
CommandCalled(kind, x, y) ==
    /\ commands' = commands + 1
    /\ trigger'.kind = kind
    /\ trigger'.x = x
    /\ trigger'.y = y

\* C14: setVelocity and setPosition given one axis only change that axis's
\* velocity (position) and set that axis's dragging flag; the other axis's
\* field and flag stay as they were.
C14_CommandsPerAxis ==
    [][\A a \in Axes : \A kind \in {"setVelocity", "setPosition"} :
          \A v \in Vel \cup Positions :
              CommandCalled(kind, IF a = "x" THEN <<v>> ELSE Undefined,
                                  IF a = "y" THEN <<v>> ELSE Undefined) =>
                  /\ dragging'[a] = 1
                  /\ dragging'[Other(a)] = dragging[Other(a)]
                  /\ IF kind = "setVelocity"
                     THEN vel' = [vel EXCEPT ![a] = v] /\ pos' = pos
                     ELSE pos' = [pos EXCEPT ![a] = v] /\ vel' = vel]_vars

\* C15: in the first frame of an active gesture, the step of an axis records
\* the axis position as the drag start, has the clock running and sets the
\* anchor to that start plus the gesture offset, whatever commands were
\* called before the gesture became active.
C15_DragStartRecorded ==
    [][(stepped' \in Axes /\ gstate = "active" /\ trigger'.kind = "begin") =>
          LET a == stepped'
          IN  /\ start'[a] = pos[a]
              /\ clock'
              /\ anchor'[a] = pos[a] + gesture[a]]_vars

\* C16: with horizontalOnly (verticalOnly) the y (x) counter is >= 10 in
\* every state and the y (x) output is 0, so that the stop condition is that
\* of the simulated axis's counter alone.
C16_LockedAxis ==
    \A a \in Axes :
        (~Simulated(a) /\ pc # "failed") =>
            /\ noMove[a] >= ANIMATOR_PAUSE_CONSECUTIVE_FRAMES
            /\ Output(a) = 0
            /\ StopNeeded(noMove)
                 <=> noMove[Other(a)] >= ANIMATOR_PAUSE_CONSECUTIVE_FRAMES

\* horizontalOnly: the clock has been stopped on the x counter, after the
\* locked axis's position was set by a command
C16_Witness ==
    /\ cfg.lock = "h"
    /\ op = "stop"
    /\ noMove.x >= ANIMATOR_PAUSE_CONSECUTIVE_FRAMES
    /\ pos.y # 0

\* the sides of an area, << >> for a side it does not give
AreaSide(area, side) == IF area = Undefined THEN Undefined ELSE area[1][side]

\* C17: areaToBoundaryXY defines min.x, max.x, min.y, max.y exactly for the
\* left, right, top, bottom bounds the area gives, with their values (0
\* included), and yields no boundary for no area or an area with no bound; a
\* behaviour with no region acts everywhere and one with a region acts
\* inside it and not outside.
C17_AreaToBoundary ==
    areaOut # Undefined =>
        LET area == areaIn.area
            b == areaOut[1].boundary
            p == areaIn.p
        IN  /\ BoundOf(b, "min", "x") = AreaSide(area, "left")
            /\ BoundOf(b, "max", "x") = AreaSide(area, "right")
            /\ BoundOf(b, "min", "y") = AreaSide(area, "top")
            /\ BoundOf(b, "max", "y") = AreaSide(area, "bottom")
            /\ (b = Undefined) <=>
                  \A side \in {"left", "right", "top", "bottom"} :
                      AreaSide(area, side) = Undefined
            /\ areaOut[1].applies <=>
                  /\ AreaSide(area, "left") # Undefined => p.x > AreaSide(area, "left")[1]
                  /\ AreaSide(area, "right") # Undefined => p.x < AreaSide(area, "right")[1]
                  /\ AreaSide(area, "top") # Undefined => p.y > AreaSide(area, "top")[1]
                  /\ AreaSide(area, "bottom") # Undefined => p.y < AreaSide(area, "bottom")[1]

\* the region {left: 0, right: 10} with the object at x = 20: no contribution
C17_Witness ==
    /\ areaOut # Undefined
    /\ areaIn.area = <<[left |-> <<0>>, right |-> <<10>>,
                        top |-> Undefined, bottom |-> Undefined]>>
    /\ areaIn.p.x = 20
    /\ areaOut[1].boundary =
          <<[min |-> <<[x |-> <<0>>, y |-> Undefined]>>,
             max |-> <<[x |-> <<10>>, y |-> Undefined]>>]>>
    /\ ~areaOut[1].applies

\* C18: constructing the component with an empty snapPoints fails, and no
\* step is ever evaluated and no input accepted for such a configuration.
C18_EmptySnapPointsFails ==
    Len(cfg.snapPoints) = 0 =>
        /\ pc = "failed"
        /\ stepped = "none"
        /\ gestures = 0
        /\ commands = 0
        /\ ~clock

\* the failed construction
C18_Witness ==
    /\ cfg = EmptyConfig
    /\ pc = "failed"

\* the priority a behaviour was added with
AddedPriority(b) ==
    LET list == IF b.src = "temp" THEN mergeIn.temp ELSE mergeIn.perm
    IN  (CHOOSE e \in {list[i] : i \in 1..Len(list)} : e.behavior = b).priority

SortedEntries(list) ==
    \A i \in 1..(Len(list) - 1) : list[i].priority <= list[i + 1].priority

\* C19: after any sequence of addBehavior calls from empty lists, each list is
\* sorted ascending by priority, and in the merged sequence no behaviour of
\* a higher priority precedes one of a lower priority (friction, priority 1,
\* comes after every priority-0 behaviour).
C19_AddBehaviorSorted ==
    /\ SortedEntries(mergeIn.temp)
    /\ SortedEntries(mergeIn.perm)
    /\ mergeOut # Undefined =>
          LET out == mergeOut[1]
          IN  /\ Len(out) = Len(mergeIn.temp) + Len(mergeIn.perm)
              /\ \A i, j \in 1..Len(out) :
                    i < j => AddedPriority(out[i]) <= AddedPriority(out[j])

\* the snap list as the constructor builds it with boundaries: spring (0),
\* friction (1), then bounce (0), merged with a perm spring and friction
C19_Witness ==
    /\ mergeOut # Undefined
    /\ Len(mergeIn.temp) = 3
    /\ mergeIn.temp[1] = [priority |-> 0, behavior |-> [src |-> "temp", n |-> 3]]
    /\ mergeIn.temp[2] = [priority |-> 0, behavior |-> [src |-> "temp", n |-> 1]]
    /\ mergeIn.temp[3] = [priority |-> 1, behavior |-> [src |-> "temp", n |-> 2]]
    /\ Len(mergeIn.perm) = 2
    /\ mergeIn.perm[1].priority = 0
    /\ mergeIn.perm[2].priority = 1

\* C20: at the end of every frame evaluated with the gesture not active,
\* the clock is stopped if and only if both counters are >= 10.
C20_ClockMatchesCounters ==
    (pc = "idle" /\ stepped \in Axes /\ gstate # "active") =>
        (~clock <=> StopNeeded(noMove))

\* a behaviour of temp or perm occurs exactly once in the merged list
MergedOnce(out, src, n) ==
    Cardinality({i \in 1..Len(out) : out[i] = [src |-> src, n |-> n]}) = 1

\* the merged list holds the behaviours of temp and of perm, each once, and
\* two behaviours of one list stand in the order they have in that list
IsInterleaving(out, temp, perm) ==
    /\ Len(out) = Len(temp) + Len(perm)
    /\ \A n \in 1..Len(temp) : MergedOnce(out, "temp", n)
    /\ \A n \in 1..Len(perm) : MergedOnce(out, "perm", n)
    /\ \A i, j \in 1..Len(out) :
          (i < j /\ out[i].src = out[j].src) => out[i].n < out[j].n

\* C21: for priority-sorted temp and perm with integer priorities,
\* mergeBehaviors returns, and the list it returns has
\* Len(temp) + Len(perm) entries, holds every behaviour of temp and of perm
\* exactly once, and keeps the order within temp and within perm.
C21_MergeInterleaving ==
    /\ <>(mergeRun.pc = "done")
    /\ [](mergeRun.pc = "done" =>
             IsInterleaving(mergeOut[1], mergeIn.temp, mergeIn.perm))

\* a returned list with a perm behaviour between two temp behaviours, from a
\* call whose priority counter passed a priority neither list holds
C21_Witness ==
    /\ mergeRun.pc = "done"
    /\ \E i, j, k \in 1..Len(mergeOut[1]) :
          /\ i < j /\ j < k
          /\ mergeOut[1][i].src = "temp"
          /\ mergeOut[1][j].src = "perm"
          /\ mergeOut[1][k].src = "temp"
    /\ \E q \in Priorities :
          /\ q > MergeStart(mergeIn.temp, mergeIn.perm)
          /\ q < mergeRun.priority
          /\ \A n \in 1..Len(mergeIn.temp) : mergeIn.temp[n].priority # q
          /\ \A n \in 1..Len(mergeIn.perm) : mergeIn.perm[n].priority # q

=============================================================================
